---- MODULE Spec2Model ----
(***************************************************************************)
(* TrueNASClient (src/src/lib/truenas.ts): one client object, the sockets  *)
(* it creates, the timers it arms, the promises it hands out, and the      *)
(* callers of src/src/manage-vms.tsx and src/src/manage-apps.tsx.          *)
(*                                                                         *)
(* Every JavaScript callback (a socket event handler, a timer callback, a  *)
(* public method up to its first suspension) runs to completion, so each   *)
(* is one action.  Promise continuations that run as microtasks right      *)
(* after the callback that settled the promise belong to that action.      *)
(* The model does not measure time: timers fire in any order, except that  *)
(* a call's 30 s deadline fires after the shorter timers armed before it.   *)
(***************************************************************************)
EXTENDS Integers, Sequences, FiniteSets, TLC

\* ---------------------------------------------------------------- bounds
MaxSockets == 8      \* size of the socket table
MaxCalls == 3        \* size of the call table
MaxFailed == 1       \* 'failed' frames the peer sends in one run
SessionSockets == 2  \* connect() invocations in a run of Spec
MuxSockets == 1      \* connect() invocations in a run of SpecMux
MuxCalls == 2        \* call() invocations in a run of SpecMux
RestartSockets == 1  \* connect() invocations in a run of SpecRestart
RestartCalls == 2    \* call() invocations in a run of SpecRestart
LiveSockets == 1     \* connect() invocations in a run of SpecLive
EnsureSockets == 2   \* sockets up to which a backoff timer fires in a run of SpecEnsure
EnsureOpens == 2     \* sockets that can open in a run of SpecEnsure
ExhaustSockets == 8  \* connect() invocations in a run of SpecExhaust
ExhaustCallers == 2  \* of these, the ones made by the caller
ExhaustOpens == 1    \* sockets the peer accepts in a run of SpecExhaust

\* ------------------------------------------------------ program constants
maxReconnectAttempts == 5
ReconnectBaseDelay == 2000
maxRetries == 3

Sock == 1..MaxSockets
Calls == 1..MaxCalls

VARIABLES
  \* fields of TrueNASClient
  ws,                    \* this.ws: 0 is null, else the socket held
  authenticated,         \* this.authenticated
  reconnectAttempts,     \* this.reconnectAttempts
  intentionalDisconnect, \* this.intentionalDisconnect
  requestCounter,        \* this.requestCounter
  pendingRequests,       \* keys of this.pendingRequests
  \* the sockets created by connect(), in creation order
  nsock,                 \* how many were created
  rs,                    \* state of each: none, connecting, aborted, open, closing, errored, closed
  \* per connect() invocation k (it creates socket k)
  connP,                 \* the promise connect() returned
  openTimer,             \* the 100 ms timer of the open handler
  authTimer,             \* the 1000 ms timer before authenticate()
  authP,                 \* the promise of the authenticate() it runs
  authId,                \* authMessage.id of that authenticate()
  authOn,                \* socket its messageListener is registered on, 0 if none
  authTimeout,           \* its 10 s timeout
  \* other timers
  reconnTimers,          \* pending backoff timers of handleReconnect
  graceTimers,           \* pending 1 s timers of tryAlternativeAuth
  now,                   \* latest value Date.now() returned to authenticate()
  \* call() invocations, in invocation order
  ncalls,                \* how many were made
  callP,                 \* promise of each: none, pending, resolved, rejected
  callVal,               \* what it settled with
  callId,                \* id assigned
  callTimer,             \* its 30 s timer: none, armed, fired
  callMethod,            \* method name sent
  callBy,                \* who made it: direct, restart
  callSock,              \* socket the frame was sent on
  callAfter,             \* connects whose socket had opened when the call was made
  \* restartVM()
  restartPc,             \* idle, stopping, settle, starting, done, failed
  \* ensureConnected() of manage-vms.tsx, one invocation
  ensurePc,              \* idle, connecting, settling, retrywait, returned, failed
  retries,               \* its variable retries
  ensureConn,            \* the connect() invocation it awaits or awaited last, 0 if none
  ensureTries,           \* connect() invocations it has made
  \* observations
  settles,               \* per call: how often resolve or reject was invoked
  fallbackSent,          \* fallback auth frames sent
  failedSeen,            \* 'failed' frames received
  backoffLog,            \* delays of the backoff timers armed since the last Ready
  userClosed,            \* the caller's last connect()/disconnect() was a disconnect()
  exhausted,             \* the backoff attempts were used up since the caller's last connect()
  badSeen,               \* calls still pending that were pending when a malformed payload arrived
  graceFor               \* per pending grace timer, oldest first, the socket held when it was armed

clientVars == <<ws, authenticated, reconnectAttempts, intentionalDisconnect,
                requestCounter, pendingRequests>>
sockVars == <<nsock, rs>>
connVars == <<connP, openTimer, authTimer, authP, authId, authOn, authTimeout>>
timerVars == <<reconnTimers, graceTimers, now>>
callVars == <<ncalls, callP, callVal, callId, callTimer, callMethod, callBy, callSock,
              callAfter>>
obsVars == <<settles, fallbackSent, failedSeen, backoffLog, userClosed, exhausted, badSeen, graceFor>>
ensureVars == <<ensurePc, retries, ensureConn, ensureTries>>
vars == <<clientVars, sockVars, connVars, timerVars, callVars, restartPc, ensureVars, obsVars>>

\* ------------------------------------------------------------------- ids
NoId == <<-1, -1>>
\* `${Date.now()}-${this.requestCounter++}`
CallIdOf(t, n) == <<t, n>>
\* `${Date.now()}-auth`
AuthIdOf(t) == <<t, -1>>

\* this.ws && this.ws.readyState === WebSocket.OPEN
WsOpen == ws # 0 /\ rs[ws] = "open"

isConnected == ws # 0 /\ rs[ws] = "open" /\ authenticated

Init ==
  /\ ws = 0
  /\ authenticated = FALSE
  /\ reconnectAttempts = 0
  /\ intentionalDisconnect = FALSE
  /\ requestCounter = 0
  /\ pendingRequests = {}
  /\ nsock = 0
  /\ rs = [s \in Sock |-> "none"]
  /\ connP = [k \in Sock |-> "none"]
  /\ openTimer = [k \in Sock |-> "none"]
  /\ authTimer = [k \in Sock |-> "none"]
  /\ authP = [k \in Sock |-> "none"]
  /\ authId = [k \in Sock |-> NoId]
  /\ authOn = [k \in Sock |-> 0]
  /\ authTimeout = [k \in Sock |-> "none"]
  /\ reconnTimers = 0
  /\ graceTimers = 0
  /\ now = 0
  /\ ncalls = 0
  /\ callP = [c \in Calls |-> "none"]
  /\ callVal = [c \in Calls |-> "none"]
  /\ callId = [c \in Calls |-> NoId]
  /\ callTimer = [c \in Calls |-> "none"]
  /\ callMethod = [c \in Calls |-> "none"]
  /\ callBy = [c \in Calls |-> "none"]
  /\ callSock = [c \in Calls |-> 0]
  /\ callAfter = [c \in Calls |-> {}]
  /\ restartPc = "idle"
  /\ ensurePc = "idle"
  /\ retries = 0
  /\ ensureConn = 0
  /\ ensureTries = 0
  /\ settles = [c \in Calls |-> 0]
  /\ fallbackSent = 0
  /\ failedSeen = 0
  /\ backoffLog = <<>>
  /\ userClosed = FALSE
  /\ exhausted = FALSE
  /\ badSeen = {}
  /\ graceFor = <<>>

\* 2000 * this.reconnectAttempts, read after the increment
BackoffDelay(attempts) == ReconnectBaseDelay * attempts

\* Observation: the delays of the backoff timers armed since isConnected() last became true
BackoffLogNext ==
  backoffLog' =
    IF ~isConnected /\ isConnected' THEN <<>>
    ELSE IF reconnTimers' > reconnTimers THEN Append(backoffLog, BackoffDelay(reconnectAttempts'))
    ELSE backoffLog

\* Observation: handleReconnect has made maxReconnectAttempts attempts, the
\* socket of the last one has closed and no backoff timer is left; it ends
\* when the caller calls connect() or isConnected() becomes true.
ExhaustedNext ==
  exhausted' =
    IF nsock' > nsock /\ reconnTimers' = reconnTimers THEN FALSE
    ELSE IF isConnected' THEN FALSE
    ELSE IF /\ reconnectAttempts' = maxReconnectAttempts
            /\ reconnTimers' = 0
            /\ ws' # 0
            /\ rs'[ws'] = "closed"
      THEN TRUE
    ELSE exhausted

\* Observation: the calls in `new` are added, the calls that have settled are
\* forgotten.
BadSeenNext(new) == badSeen' = {c \in badSeen \cup new : callP'[c] = "pending"}

\* Observation: the grace timers have the same delay, so they fire in the
\* order in which they were armed.
GraceForNext ==
  graceFor' =
    IF graceTimers' > graceTimers
      THEN graceFor \o [i \in 1..(graceTimers' - graceTimers) |-> ws]
    ELSE IF graceTimers' < graceTimers THEN Tail(graceFor)
    ELSE graceFor

\* ensureConnected resumes when the connect() it awaits settles, lines 36-47:
\* on success it starts the 2 s wait; on failure it counts the retry and
\* throws the error or starts the wait before the next try.
EnsureResume ==
  IF ensurePc = "connecting" /\ connP'[ensureConn] # "pending"
    THEN IF connP'[ensureConn] = "resolved"
           THEN /\ ensurePc' = "settling"
                /\ UNCHANGED <<retries, ensureConn, ensureTries>>
           ELSE /\ retries' = retries + 1
                /\ ensurePc' = IF retries + 1 >= maxRetries THEN "failed" ELSE "retrywait"
                /\ UNCHANGED <<ensureConn, ensureTries>>
    ELSE UNCHANGED ensureVars

\* ------------------------------------------------------------- promises
\* A promise settles once: resolve or reject on a settled promise does nothing.
Settle(p, outcome) == IF p = "pending" THEN outcome ELSE p

\* ------------------------------------------------- connect and its timers
\* connect(), lines 67-77 and the handler registrations 79-122: the flag is
\* cleared, a new socket replaces this.ws (the old one is neither closed nor
\* detached), and the promise is pending.
ConnectBody ==
  /\ nsock < MaxSockets
  /\ intentionalDisconnect' = FALSE
  /\ nsock' = nsock + 1
  /\ rs' = [rs EXCEPT ![nsock + 1] = "connecting"]
  /\ ws' = nsock + 1
  /\ connP' = [connP EXCEPT ![nsock + 1] = "pending"]
  /\ UNCHANGED <<authenticated, reconnectAttempts, requestCounter, pendingRequests>>
  /\ UNCHANGED <<openTimer, authTimer, authP, authId, authOn, authTimeout>>
  /\ UNCHANGED <<graceTimers, now>>
  /\ UNCHANGED <<callVars, restartPc, settles, fallbackSent, failedSeen>>
  /\ BackoffLogNext
  /\ ExhaustedNext
  /\ GraceForNext
  /\ BadSeenNext({})

\* The callers of connect(): fetchApps, startApp, ... and ensureConnected call
\* it when isConnected() is false.
CallerConnect ==
  /\ ~isConnected
  /\ UNCHANGED reconnTimers
  /\ UNCHANGED ensureVars
  /\ userClosed' = FALSE
  /\ ConnectBody

\* The backoff timer of handleReconnect fires: this.connect().catch(() => {}).
ReconnectTimerFire ==
  /\ reconnTimers > 0
  /\ reconnTimers' = reconnTimers - 1
  /\ UNCHANGED userClosed
  /\ UNCHANGED ensureVars
  /\ ConnectBody

\* One pass of the loop of ensureConnected, lines 32-40, with r retries so
\* far: it returns if isConnected(), else it calls connect() and awaits it.
EnsureTry(r) ==
  /\ retries' = r
  /\ IF isConnected
       THEN /\ ensurePc' = "returned"
            /\ UNCHANGED <<ensureConn, ensureTries>>
            /\ UNCHANGED <<clientVars, sockVars, connVars, timerVars, callVars, restartPc, obsVars>>
       ELSE /\ ensurePc' = "connecting"
            /\ ensureConn' = nsock + 1
            /\ ensureTries' = ensureTries + 1
            /\ UNCHANGED reconnTimers
            /\ userClosed' = FALSE
            /\ ConnectBody

\* ensureConnected() is called, lines 28-32.
EnsureBegin ==
  /\ ensurePc = "idle"
  /\ EnsureTry(0)

\* The wait before the next try is over, line 47.
EnsureRetryFire ==
  /\ ensurePc = "retrywait"
  /\ EnsureTry(retries)

\* The 2 s wait after connect() is over, lines 38-40: ensureConnected returns.
EnsureWaitFire ==
  /\ ensurePc = "settling"
  /\ ensurePc' = "returned"
  /\ UNCHANGED <<retries, ensureConn, ensureTries>>
  /\ UNCHANGED <<clientVars, sockVars, connVars, timerVars, callVars, restartPc, obsVars>>

\* ws.on('open'): the socket is OPEN and the 100 ms timer is armed.
SocketOpen(k) ==
  /\ rs[k] = "connecting"
  /\ rs' = [rs EXCEPT ![k] = "open"]
  /\ openTimer' = [openTimer EXCEPT ![k] = "armed"]
  /\ UNCHANGED <<clientVars, nsock, connP, authTimer, authP, authId, authOn, authTimeout>>
  /\ UNCHANGED <<timerVars, callVars, restartPc, settles, fallbackSent, failedSeen, userClosed>>
  /\ BackoffLogNext
  /\ ExhaustedNext
  /\ GraceForNext
  /\ EnsureResume
  /\ BadSeenNext({})

\* The 100 ms timer of connect k, lines 83-106.  It tests and uses this.ws,
\* the socket held now, which need not be socket k.
OpenTimerFire(k) ==
  /\ openTimer[k] = "armed"
  /\ openTimer' = [openTimer EXCEPT ![k] = "fired"]
  /\ IF WsOpen
       THEN /\ authTimer' = [authTimer EXCEPT ![k] = "armed"]
            /\ connP' = connP
       ELSE /\ connP' = [connP EXCEPT ![k] = Settle(connP[k], "rej_notready")]
            /\ authTimer' = authTimer
  /\ UNCHANGED <<clientVars, sockVars, authP, authId, authOn, authTimeout>>
  /\ UNCHANGED <<timerVars, callVars, restartPc, settles, fallbackSent, failedSeen, userClosed>>
  /\ BackoffLogNext
  /\ ExhaustedNext
  /\ GraceForNext
  /\ EnsureResume
  /\ BadSeenNext({})

\* ws.on('error'): reject(error).  The socket has failed, or close() was
\* called on it before it had opened: it delivers no more frames and its
\* close event follows.
SocketError(k) ==
  /\ rs[k] \in {"connecting", "aborted", "open"}
  /\ rs' = [rs EXCEPT ![k] = "errored"]
  /\ connP' = [connP EXCEPT ![k] = Settle(connP[k], "rej_error")]
  /\ UNCHANGED <<clientVars, nsock, openTimer, authTimer, authP, authId, authOn, authTimeout>>
  /\ UNCHANGED <<timerVars, callVars, restartPc, settles, fallbackSent, failedSeen, userClosed>>
  /\ BackoffLogNext
  /\ ExhaustedNext
  /\ GraceForNext
  /\ EnsureResume
  /\ BadSeenNext({})

\* handleReconnect arms a timer whenever the closure was not intentional.
HandleReconnectArmsAlways == ~intentionalDisconnect

\* handleReconnect(), lines 127-142: whether it counts an attempt and arms a timer.
HandleReconnectArms == ~intentionalDisconnect /\ reconnectAttempts < maxReconnectAttempts

\* ws.on('close') of socket k, lines 118-122, whether or not k is this.ws.
SocketClose(k) ==
  /\ rs[k] \in {"connecting", "open", "closing", "errored"}
  /\ rs' = [rs EXCEPT ![k] = "closed"]
  /\ authenticated' = FALSE
  /\ IF HandleReconnectArms
       THEN /\ reconnectAttempts' = reconnectAttempts + 1
            /\ reconnTimers' = reconnTimers + 1
       ELSE UNCHANGED <<reconnectAttempts, reconnTimers>>
  /\ UNCHANGED <<ws, intentionalDisconnect, requestCounter, pendingRequests>>
  /\ UNCHANGED <<nsock, connVars, graceTimers, now>>
  /\ UNCHANGED <<callVars, restartPc, settles, fallbackSent, failedSeen, userClosed>>
  /\ BackoffLogNext
  /\ ExhaustedNext
  /\ GraceForNext
  /\ EnsureResume
  /\ BadSeenNext({})

\* disconnect() sets the flag also when no socket is held.
DisconnectAlwaysFlags ==
  /\ intentionalDisconnect' = TRUE
  /\ IF ws # 0
       THEN /\ rs' = [rs EXCEPT ![ws] = IF @ = "open" THEN "closing"
                                         ELSE IF @ = "connecting" THEN "aborted" ELSE @]
            /\ ws' = 0
            /\ authenticated' = FALSE
       ELSE UNCHANGED <<rs, ws, authenticated>>
  /\ UNCHANGED <<reconnectAttempts, requestCounter, pendingRequests, nsock>>
  /\ userClosed' = TRUE
  /\ UNCHANGED <<connVars, timerVars, callVars, restartPc, settles, fallbackSent, failedSeen>>
  /\ BackoffLogNext
  /\ ExhaustedNext
  /\ GraceForNext
  /\ EnsureResume
  /\ BadSeenNext({})

\* disconnect(), lines 361-369.  close() on an open socket starts its closing
\* handshake and the close event comes later; close() on a socket that has
\* not opened aborts it, and its error event and then its close event come.
Disconnect ==
  /\ IF ws # 0
       THEN /\ intentionalDisconnect' = TRUE
            /\ rs' = [rs EXCEPT ![ws] = IF @ = "open" THEN "closing"
                                         ELSE IF @ = "connecting" THEN "aborted" ELSE @]
            /\ ws' = 0
            /\ authenticated' = FALSE
       ELSE UNCHANGED <<intentionalDisconnect, rs, ws, authenticated>>
  /\ UNCHANGED <<reconnectAttempts, requestCounter, pendingRequests, nsock>>
  /\ userClosed' = TRUE
  /\ UNCHANGED <<connVars, timerVars, callVars, restartPc, settles, fallbackSent, failedSeen>>
  /\ BackoffLogNext
  /\ ExhaustedNext
  /\ GraceForNext
  /\ EnsureResume
  /\ BadSeenNext({})

\* ---------------------------------------------------------- authenticate
\* The 1000 ms timer of connect k fires, lines 94-102: authenticate(), lines
\* 208-268, on the socket held now.  Date.now() has not gone back since the last
\* login id was made; two logins in the same millisecond get the same id.
AuthTimerFire(k) ==
  /\ authTimer[k] = "armed"
  /\ authTimer' = [authTimer EXCEPT ![k] = "fired"]
  /\ IF WsOpen
       THEN \E t \in {now, now + 1} \ {0} :
              /\ now' = t
              /\ authId' = [authId EXCEPT ![k] = AuthIdOf(t)]
              /\ authP' = [authP EXCEPT ![k] = "pending"]
              /\ authTimeout' = [authTimeout EXCEPT ![k] = "armed"]
              /\ authOn' = [authOn EXCEPT ![k] = ws]
              /\ connP' = connP
       ELSE /\ authP' = [authP EXCEPT ![k] = "rejected"]
            /\ connP' = [connP EXCEPT ![k] = Settle(connP[k], "rej_notconnected")]
            /\ UNCHANGED <<now, authId, authTimeout, authOn>>
  /\ UNCHANGED <<clientVars, sockVars, openTimer, reconnTimers, graceTimers>>
  /\ UNCHANGED <<callVars, restartPc, settles, fallbackSent, failedSeen, userClosed>>
  /\ BackoffLogNext
  /\ ExhaustedNext
  /\ GraceForNext
  /\ EnsureResume
  /\ BadSeenNext({})

\* The 10 s timer of authenticate(), lines 255-257; connect's catch rejects.
AuthTimeoutFire(k) ==
  /\ authTimeout[k] = "armed"
  /\ authTimeout' = [authTimeout EXCEPT ![k] = "fired"]
  /\ authP' = [authP EXCEPT ![k] = Settle(authP[k], "rejected")]
  /\ connP' = [connP EXCEPT ![k] =
                 IF authP[k] = "pending" THEN Settle(connP[k], "rej_authtimeout") ELSE @]
  /\ UNCHANGED <<clientVars, sockVars, openTimer, authTimer, authId, authOn, timerVars>>
  /\ UNCHANGED <<callVars, restartPc, settles, fallbackSent, failedSeen, userClosed>>
  /\ BackoffLogNext
  /\ ExhaustedNext
  /\ GraceForNext
  /\ EnsureResume
  /\ BadSeenNext({})

\* The grace timer fires and leaves the flag as it was.
GraceTimerFireNoFlag ==
  /\ graceTimers > 0
  /\ graceTimers' = graceTimers - 1
  /\ UNCHANGED <<clientVars, sockVars, connVars, reconnTimers, now>>
  /\ UNCHANGED <<callVars, restartPc, settles, fallbackSent, failedSeen, userClosed>>
  /\ BackoffLogNext
  /\ ExhaustedNext
  /\ GraceForNext
  /\ EnsureResume
  /\ BadSeenNext({})

\* The 1 s timer of tryAlternativeAuth, lines 285-287.
GraceTimerFire ==
  /\ graceTimers > 0
  /\ graceTimers' = graceTimers - 1
  /\ authenticated' = TRUE
  /\ UNCHANGED <<ws, reconnectAttempts, intentionalDisconnect, requestCounter, pendingRequests>>
  /\ UNCHANGED <<sockVars, connVars, reconnTimers, now>>
  /\ UNCHANGED <<callVars, restartPc, settles, fallbackSent, failedSeen, userClosed>>
  /\ BackoffLogNext
  /\ ExhaustedNext
  /\ GraceForNext
  /\ EnsureResume
  /\ BadSeenNext({})

\* ------------------------------------------------------------------ call
\* The calls restartVM made
RestartCall(m) == CHOOSE c \in Calls : callBy[c] = "restart" /\ callMethod[c] = m

\* restartVM goes on to the settle delay however the stop call settled.
RestartAfterAnySettle(cp) ==
  IF restartPc = "stopping"
    THEN IF cp[RestartCall("vm.stop")] \in {"resolved", "rejected"} THEN "settle"
         ELSE "stopping"
  ELSE IF restartPc = "starting"
    THEN IF cp[RestartCall("vm.start")] = "resolved" THEN "done"
         ELSE IF cp[RestartCall("vm.start")] = "rejected" THEN "failed"
         ELSE "starting"
  ELSE restartPc

\* restartVM resumes, lines 319-325, when the call it awaits settles; cp is the
\* calls' promises after the step.
RestartAfter(cp) ==
  IF restartPc = "stopping"
    THEN IF cp[RestartCall("vm.stop")] = "resolved" THEN "settle"
         ELSE IF cp[RestartCall("vm.stop")] = "rejected" THEN "failed"
         ELSE "stopping"
  ELSE IF restartPc = "starting"
    THEN IF cp[RestartCall("vm.start")] = "resolved" THEN "done"
         ELSE IF cp[RestartCall("vm.start")] = "rejected" THEN "failed"
         ELSE "starting"
  ELSE restartPc

\* call() tests only that a socket is held.
CallGuardHeld == ws # 0

\* The guard of call(), line 180
CallGuard == WsOpen

\* call(method), lines 179-205, made by `by`; c is the invocation's number.
Call(m, by) ==
  LET c == ncalls + 1 IN
  /\ ncalls < MaxCalls
  /\ ncalls' = c
  /\ callMethod' = [callMethod EXCEPT ![c] = m]
  /\ callBy' = [callBy EXCEPT ![c] = by]
  /\ settles' = [settles EXCEPT ![c] = IF CallGuard THEN 0 ELSE 1]
  /\ IF CallGuard
       THEN /\ callId' = [callId EXCEPT ![c] = CallIdOf(now, requestCounter)]
            /\ requestCounter' = requestCounter + 1
            /\ pendingRequests' = pendingRequests \cup {CallIdOf(now, requestCounter)}
            /\ callP' = [callP EXCEPT ![c] = "pending"]
            /\ callTimer' = [callTimer EXCEPT ![c] = "armed"]
            /\ callSock' = [callSock EXCEPT ![c] = ws]
            /\ callAfter' = [callAfter EXCEPT ![c] = {k \in Sock : openTimer[k] # "none"}]
            /\ callVal' = callVal
       ELSE /\ callP' = [callP EXCEPT ![c] = "rejected"]
            /\ callVal' = [callVal EXCEPT ![c] = "WebSocket is not connected"]
            /\ UNCHANGED <<callId, requestCounter, pendingRequests, callTimer, callSock, callAfter>>
  /\ UNCHANGED <<ws, authenticated, reconnectAttempts, intentionalDisconnect>>
  /\ UNCHANGED <<sockVars, connVars, timerVars, fallbackSent, failedSeen, userClosed>>
  /\ BackoffLogNext
  /\ ExhaustedNext
  /\ GraceForNext
  /\ EnsureResume
  /\ BadSeenNext({})

\* getVMs(), startVM(id), ...: one call each, lines 292-311
DirectCall(m) ==
  /\ Call(m, "direct")
  /\ UNCHANGED restartPc

\* The timers of connect k (100 ms, then 1000 ms, then 10 s) are all done.
ChainDone(k) == openTimer[k] # "armed" /\ authTimer[k] # "armed" /\ authTimeout[k] # "armed"

\* The deadline of call c, lines 198-203.  It is 30 s: the timers of a connect
\* whose socket had opened before the call was made, 11.1 s in all, are done.
CallTimerFire(c) ==
  /\ callTimer[c] = "armed"
  /\ \A k \in callAfter[c] : ChainDone(k)
  /\ callTimer' = [callTimer EXCEPT ![c] = "fired"]
  /\ IF callId[c] \in pendingRequests
       THEN /\ pendingRequests' = pendingRequests \ {callId[c]}
            /\ callP' = [callP EXCEPT ![c] = Settle(@, "rejected")]
            /\ callVal' = [callVal EXCEPT ![c] = IF callP[c] = "pending" THEN "Request timeout" ELSE @]
            /\ settles' = [settles EXCEPT ![c] = @ + 1]
       ELSE UNCHANGED <<pendingRequests, callP, callVal, settles>>
  /\ restartPc' = RestartAfter(callP')
  /\ UNCHANGED <<ws, authenticated, reconnectAttempts, intentionalDisconnect, requestCounter>>
  /\ UNCHANGED <<sockVars, connVars, timerVars, fallbackSent, failedSeen, userClosed>>
  /\ UNCHANGED <<ncalls, callId, callMethod, callBy, callSock, callAfter>>
  /\ BackoffLogNext
  /\ ExhaustedNext
  /\ GraceForNext
  /\ EnsureResume
  /\ BadSeenNext({})

\* ------------------------------------------------------------- restartVM
\* restartVM(id), line 320: stopVM's call; a rejection ends the restart.
RestartBegin ==
  /\ restartPc = "idle"
  /\ Call("vm.stop", "restart")
  /\ restartPc' = IF CallGuard THEN "stopping" ELSE "failed"

\* The 1 s settle timer fires, lines 322-323: startVM's call.
RestartSettleFire ==
  /\ restartPc = "settle"
  /\ Call("vm.start", "restart")
  /\ restartPc' = IF CallGuard THEN "starting" ELSE "failed"

\* -------------------------------------------------------- inbound frames
IssuedIds == {callId[c] : c \in 1..ncalls} \cup {authId[k] : k \in 1..nsock}

\* What the peer may send: text that does not parse, JSON that is no object,
\* or an object with any msg, any id (one the client issued, or none: an id
\* the client never issued meets the same tests as no id), a result payload
\* and an error message.
Msgs == {"connected", "failed", "pong", "result", "error", "method"}
Results == {"true", "rows"}
ErrMsgs == {"denied", ""}
Garbage == [shape |-> "unparsable", msg |-> "", id |-> NoId, result |-> "", emsg |-> ""]
NonObject == [shape |-> "nonobject", msg |-> "", id |-> NoId, result |-> "", emsg |-> ""]
Obj(m, i, r, e) == [shape |-> "object", msg |-> m, id |-> i, result |-> r, emsg |-> e]
Frames ==
  {Garbage, NonObject}
    \cup {Obj(m, i, "", "") : m \in Msgs \ {"result", "error"}, i \in IssuedIds \cup {NoId}}
    \cup {Obj("result", i, r, "") : i \in IssuedIds \cup {NoId}, r \in Results}
    \cup {Obj("error", i, "", e) : i \in IssuedIds \cup {NoId}, e \in ErrMsgs}

\* The pending table served as a queue: only the oldest pending id is looked up.
HandleMessageKindFifo(f) ==
  IF f.shape # "object" THEN "none"
  ELSE IF f.msg = "connected" THEN "none"
  ELSE IF f.msg = "failed" THEN "fallback"
  ELSE IF f.msg = "pong" THEN "none"
  ELSE IF f.id \in pendingRequests /\ \A i \in pendingRequests : i[2] >= f.id[2]
    THEN IF f.msg = "result" THEN "resolve"
         ELSE IF f.msg = "error" THEN "reject"
         ELSE "drop"
  ELSE "none"

\* handleMessage(data), lines 145-176, classified: what one invocation does.
\*   "none"     parse failure, non-object, connected, pong, or no pending entry
\*   "fallback" tryAlternativeAuth()
\*   "resolve" / "reject" / "drop"  the pending entry of f.id is settled (or
\*              not: any other msg) and deleted
HandleMessageKind(f) ==
  IF f.shape # "object" THEN "none"
  ELSE IF f.msg = "connected" THEN "none"
  ELSE IF f.msg = "failed" THEN "fallback"
  ELSE IF f.msg = "pong" THEN "none"
  ELSE IF f.id \in pendingRequests
    THEN IF f.msg = "result" THEN "resolve"
         ELSE IF f.msg = "error" THEN "reject"
         ELSE "drop"
  ELSE "none"

\* response.error?.message || 'Unknown error', line 169
RejectMessage(f) == IF f.emsg = "" THEN "Unknown error" ELSE f.emsg

\* The entry taken is the first pending one, whatever the key.
CallOfIdFirst(i) == CHOOSE c \in 1..ncalls : callId[c] \in pendingRequests

\* The call whose pending entry has key i
CallOfId(i) == CHOOSE c \in 1..ncalls : callId[c] = i

\* authHandler's test, line 229, for the login of connect k
AuthMatches(k, f) == f.shape = "object" /\ f.id = authId[k]

\* Any result frame counts as a successful login.
AuthSuccessAnyResult(f) == f.msg = "result"

\* line 230
AuthSuccess(f) == f.msg = "result" /\ f.result = "true"

\* A frame arrives on socket s.  The 'message' listeners of s run in turn:
\* the session's (lines 109-111), then the messageListener of every
\* authenticate() registered on s (lines 260-264), whose authHandler passes a
\* frame that is not its own to handleMessage again.
Receive(s, f) ==
  LET listeners == {k \in Sock : authOn[k] = s}
      mine == {k \in listeners : AuthMatches(k, f)}
      won == {k \in mine : authP[k] = "pending"}
      runs == 1 + Cardinality(listeners \ mine)
      kind == HandleMessageKind(f)
  IN
  /\ rs[s] \in {"open", "closing"}
  /\ f.msg = "failed" => failedSeen < MaxFailed
  /\ UNCHANGED <<ws, intentionalDisconnect, requestCounter>>
  /\ UNCHANGED <<sockVars, openTimer, authTimer, authId, reconnTimers, now>>
  /\ UNCHANGED <<ncalls, callId, callTimer, callMethod, callBy, callSock, callAfter, userClosed>>
  /\ failedSeen' = IF f.msg = "failed" THEN failedSeen + 1 ELSE failedSeen
  \* handleMessage, once per listener that reaches it
  /\ IF kind \in {"resolve", "reject", "drop"}
       THEN LET c == CallOfId(f.id) IN
            /\ pendingRequests' = pendingRequests \ {f.id}
            /\ callP' = [callP EXCEPT ![c] =
                 IF kind = "resolve" THEN Settle(@, "resolved")
                 ELSE IF kind = "reject" THEN Settle(@, "rejected") ELSE @]
            /\ callVal' = [callVal EXCEPT ![c] =
                 IF callP[c] # "pending" THEN @
                 ELSE IF kind = "resolve" THEN f.result
                 ELSE IF kind = "reject" THEN RejectMessage(f) ELSE @]
            /\ settles' = [settles EXCEPT ![c] = IF kind = "drop" THEN @ ELSE @ + 1]
       ELSE UNCHANGED <<pendingRequests, callP, callVal, settles>>
  /\ IF kind = "fallback" /\ WsOpen
       THEN /\ fallbackSent' = fallbackSent + runs
            /\ graceTimers' = graceTimers + runs
       ELSE UNCHANGED <<fallbackSent, graceTimers>>
  \* authHandler of each login whose id the frame carries, lines 229-236, and
  \* the continuation of connect, lines 97-100
  /\ authenticated' = IF mine # {} /\ AuthSuccess(f) THEN TRUE ELSE authenticated
  /\ authP' = [k \in Sock |->
                 IF k \in mine
                   THEN Settle(authP[k], IF AuthSuccess(f) THEN "resolved" ELSE "rejected")
                   ELSE authP[k]]
  /\ reconnectAttempts' = IF won # {} /\ AuthSuccess(f) THEN 0 ELSE reconnectAttempts
  /\ connP' = [k \in Sock |->
                 IF k \in won
                   THEN Settle(connP[k], IF AuthSuccess(f) THEN "resolved" ELSE "rej_authfailed")
                   ELSE connP[k]]
  \* clearTimeout(timeout); this.ws?.off('message', messageListener)
  /\ authTimeout' = [k \in Sock |->
                 IF k \in listeners /\ authTimeout[k] = "armed" THEN "cleared" ELSE authTimeout[k]]
  /\ authOn' = [k \in Sock |-> IF k \in listeners /\ ws = s THEN 0 ELSE authOn[k]]
  /\ restartPc' = RestartAfter(callP')
  /\ BackoffLogNext
  /\ ExhaustedNext
  /\ GraceForNext
  /\ EnsureResume
  /\ BadSeenNext(IF f.shape # "object"
                   THEN {c \in 1..ncalls : callP[c] = "pending" /\ callId[c] \in pendingRequests}
                   ELSE {})

\* --------------------------------------------------------- specification
\* The session: connect, login, closure, backoff, disconnect; no call is made.
Next ==
  \/ nsock < SessionSockets /\ CallerConnect
  \/ nsock < SessionSockets /\ ReconnectTimerFire
  \/ Disconnect
  \/ \E k \in 1..nsock : SocketOpen(k)
  \/ \E k \in 1..nsock : OpenTimerFire(k)
  \/ \E k \in 1..nsock : SocketError(k)
  \/ \E k \in 1..nsock : SocketClose(k)
  \/ \E k \in 1..nsock : AuthTimerFire(k)
  \/ \E k \in 1..nsock : AuthTimeoutFire(k)
  \/ GraceTimerFire
  \/ \E s \in 1..nsock : \E f \in Frames : Receive(s, f)

Spec == Init /\ [][Next]_vars

\* The multiplexer: calls made at any time on one session, their responses
\* and their deadlines.
NextMux ==
  \/ nsock < MuxSockets /\ CallerConnect
  \/ Disconnect
  \/ \E k \in 1..nsock : SocketOpen(k)
  \/ \E k \in 1..nsock : OpenTimerFire(k)
  \/ \E k \in 1..nsock : SocketError(k)
  \/ \E k \in 1..nsock : SocketClose(k)
  \/ \E k \in 1..nsock : AuthTimerFire(k)
  \/ \E k \in 1..nsock : AuthTimeoutFire(k)
  \/ GraceTimerFire
  \/ \E s \in 1..nsock : \E f \in Frames : Receive(s, f)
  \/ ncalls < MuxCalls /\ DirectCall("vm.query")
  \/ \E c \in 1..ncalls : CallTimerFire(c)

SpecMux == Init /\ [][NextMux]_vars

\* restartVM on one session.
NextRestart ==
  \/ nsock < RestartSockets /\ CallerConnect
  \/ Disconnect
  \/ \E k \in 1..nsock : SocketOpen(k)
  \/ \E k \in 1..nsock : OpenTimerFire(k)
  \/ \E k \in 1..nsock : SocketError(k)
  \/ \E k \in 1..nsock : SocketClose(k)
  \/ \E k \in 1..nsock : AuthTimerFire(k)
  \/ \E k \in 1..nsock : AuthTimeoutFire(k)
  \/ GraceTimerFire
  \/ \E s \in 1..nsock : \E f \in Frames : Receive(s, f)
  \/ \E c \in 1..ncalls : CallTimerFire(c)
  \/ ncalls < RestartCalls /\ RestartBegin
  \/ ncalls < RestartCalls /\ RestartSettleFire

SpecRestart == Init /\ [][NextRestart]_vars

\* One connect() and what follows it, with the scheduling the runtime gives:
\* an armed timer fires, a socket that is being opened opens or fails, and a
\* socket that failed or is being closed gets its close event.  The peer is
\* free to send or not to send.
NextLive ==
  \/ nsock < LiveSockets /\ CallerConnect
  \/ Disconnect
  \/ \E k \in 1..nsock : SocketOpen(k)
  \/ \E k \in 1..nsock : OpenTimerFire(k)
  \/ \E k \in 1..nsock : SocketError(k)
  \/ \E k \in 1..nsock : SocketClose(k)
  \/ \E k \in 1..nsock : AuthTimerFire(k)
  \/ \E k \in 1..nsock : AuthTimeoutFire(k)
  \/ GraceTimerFire
  \/ \E s \in 1..nsock : \E f \in Frames : Receive(s, f)

TimersFire ==
  /\ \A k \in Sock : WF_vars(OpenTimerFire(k))
  /\ \A k \in Sock : WF_vars(AuthTimerFire(k))
  /\ \A k \in Sock : WF_vars(AuthTimeoutFire(k))
  /\ WF_vars(GraceTimerFire)

SocketsProgress ==
  /\ \A k \in Sock : WF_vars(rs[k] \in {"connecting", "aborted"} /\ (SocketOpen(k) \/ SocketError(k)))
  /\ \A k \in Sock : WF_vars(rs[k] \in {"closing", "errored"} /\ SocketClose(k))

SpecLive == Init /\ [][NextLive]_vars /\ TimersFire /\ SocketsProgress

\* No 10 s login timeout is armed.
NoLoginTimeout == \A k \in Sock : authTimeout[k] # "armed"

\* The backoff running out: the peer accepts the first sockets and refuses the
\* later ones, and every closure is followed by the automatic reconnects.  The
\* backoff delays add up to 30 s, so no run here has a backoff timer overtake
\* a login timeout: a backoff timer fires when no login timeout is armed.
NextExhaust ==
  \/ nsock < ExhaustCallers /\ CallerConnect
  \/ nsock < ExhaustSockets /\ NoLoginTimeout /\ ReconnectTimerFire
  \/ \E k \in 1..ExhaustOpens : SocketOpen(k)
  \/ \E k \in 1..nsock : OpenTimerFire(k)
  \/ \E k \in 1..nsock : SocketError(k)
  \/ \E k \in 1..nsock : SocketClose(k)
  \/ \E k \in 1..nsock : AuthTimerFire(k)
  \/ \E k \in 1..nsock : AuthTimeoutFire(k)
  \/ GraceTimerFire
  \/ \E s \in 1..nsock : \E f \in Frames : Receive(s, f)

SpecExhaust == Init /\ [][NextExhaust]_vars

\* One invocation of ensureConnected and what its connects meet.
NextEnsure ==
  \/ EnsureBegin
  \/ EnsureRetryFire
  \/ EnsureWaitFire
  \/ nsock < EnsureSockets /\ ReconnectTimerFire
  \/ \E k \in 1..EnsureOpens : SocketOpen(k)
  \/ \E k \in 1..nsock : OpenTimerFire(k)
  \/ \E k \in 1..nsock : SocketError(k)
  \/ \E k \in 1..nsock : SocketClose(k)
  \/ \E k \in 1..nsock : AuthTimerFire(k)
  \/ \E k \in 1..nsock : AuthTimeoutFire(k)
  \/ GraceTimerFire
  \/ \E s \in 1..nsock : \E f \in Frames : Receive(s, f)

SpecEnsure == Init /\ [][NextEnsure]_vars

\* ------------------------------------------------------------ properties
\* The step delivers frame f on some socket.
FrameStep(f) == \E s \in 1..nsock : Receive(s, f)

Settled(c) == callP[c] \in {"resolved", "rejected"}

\* C1: every call made on an open session is settled exactly once, whatever
\* frames carry its id: resolve or reject is invoked on its promise at most
\* once, and once its deadline has fired it has been invoked.
C1_SettledExactlyOnce ==
  \A c \in 1..ncalls :
    callSock[c] # 0 =>
      /\ settles[c] <= 1
      /\ callTimer[c] = "fired" => settles[c] = 1 /\ Settled(c)

\* C2: no cross-wiring.  A step that settles call c or removes its pending
\* entry is the firing of c's own deadline or the arrival of a frame with c's
\* id; c is resolved only by a result frame, with that frame's result, and
\* rejected with a peer message only by an error frame, with its message.
C2_NoCrossWiring ==
  [][\A c \in Calls :
       (\/ callId[c] \in pendingRequests /\ callId[c] \notin pendingRequests'
        \/ callP[c] = "pending" /\ callP'[c] # "pending")
       =>
       \/ /\ CallTimerFire(c)
          /\ callP'[c] = "rejected"
          /\ callVal'[c] = "Request timeout"
       \/ \E f \in Frames :
            /\ f.id = callId[c]
            /\ FrameStep(f)
            /\ callP'[c] = "resolved" => f.msg = "result" /\ callVal'[c] = f.result
            /\ callP'[c] = "rejected" => f.msg = "error" /\ callVal'[c] = RejectMessage(f)
    ]_vars

\* C2's case: two calls were pending at once and the later one was resolved
\* by its result frame while the earlier one is still pending.
C2_Witness ==
  /\ ncalls = 2
  /\ callP[1] = "pending" /\ callId[1] \in pendingRequests
  /\ callP[2] = "resolved" /\ callVal[2] = "rows"

\* C4: a call made while no socket is held, or the socket held is not open,
\* is rejected at once with the not-connected error and changes nothing else:
\* no pending entry, no frame sent, no timer, no counter, no client state.
C4_NotConnectedRejects ==
  [][(ncalls' = ncalls + 1 /\ ~(ws # 0 /\ rs[ws] = "open"))
       =>
       /\ callP'[ncalls'] = "rejected"
       /\ callVal'[ncalls'] = "WebSocket is not connected"
       /\ callSock'[ncalls'] = 0
       /\ callTimer'[ncalls'] = "none"
       /\ UNCHANGED <<clientVars, sockVars, connVars, timerVars>>
       /\ \A c \in 1..ncalls : callP'[c] = callP[c] /\ callTimer'[c] = callTimer[c]
    ]_vars

\* C4's case: after a first call was accepted and resolved, a second call
\* was rejected while the client still held the socket, which had closed.
C4_Witness ==
  /\ ncalls = 2
  /\ callP[1] = "resolved"
  /\ callP[2] = "rejected" /\ callVal[2] = "WebSocket is not connected"
  /\ ws # 0 /\ rs[ws] = "closed"
  /\ pendingRequests = {} /\ requestCounter = 1

\* C5: a pending request whose deadline fires is removed from the pending
\* table and its caller is rejected with the request-timeout error; a result
\* or error frame with that id that arrives afterwards changes no state.
C5_TimeoutThenLateFrameInert ==
  [][\A c \in Calls :
       /\ (CallTimerFire(c) /\ callId[c] \in pendingRequests)
            => /\ callId[c] \notin pendingRequests'
               /\ callP'[c] = "rejected"
               /\ callVal'[c] = "Request timeout"
       /\ (callTimer[c] = "fired" /\ callVal[c] = "Request timeout")
            => \A f \in Frames :
                 (f.id = callId[c] /\ f.msg \in {"result", "error"} /\ FrameStep(f))
                   => UNCHANGED vars
    ]_vars

\* C10: completion follows arrival.  When two calls have entries in the
\* pending table and a result or error frame for one of them arrives, that
\* call settles in that step and the other stays pending, whichever was
\* made first.
C10_ArrivalOrder ==
  [][\A a, b \in Calls :
       (/\ a # b
        /\ callP[a] = "pending" /\ callId[a] \in pendingRequests
        /\ callP[b] = "pending" /\ callId[b] \in pendingRequests)
       => \A f \in Frames :
            (f.id = callId[b] /\ f.msg \in {"result", "error"} /\ FrameStep(f))
              => callP'[b] # "pending" /\ callP'[a] = "pending"
    ]_vars

\* C10's case: the call made second has settled on its response, the call
\* made first settled later on its own.
C10_Witness ==
  /\ ncalls = 2
  /\ callSock[1] # 0 /\ callSock[1] = callSock[2]
  /\ callP[2] = "rejected" /\ callVal[2] = "denied"
  /\ callP[1] = "pending" /\ callId[1] \in pendingRequests

\* C3: after disconnect() and until the caller calls connect() again, the
\* client opens no socket and isConnected() is false.
C3_NoReconnectAfterDisconnect ==
  /\ [](userClosed => ~isConnected)
  /\ [][(userClosed /\ userClosed') => nsock' = nsock]_vars

\* C6: between two transitions to Ready at most maxReconnectAttempts backoff
\* timers are armed, each with a delay greater than the one before.
C6_BoundedIncreasingBackoff ==
  /\ Len(backoffLog) <= maxReconnectAttempts
  /\ \A i, j \in 1..Len(backoffLog) : i < j => backoffLog[i] < backoffLog[j]

\* C7: whenever isConnected() becomes true, reconnectAttempts is 0.
C7_ReadyResetsAttempts ==
  [][(~isConnected /\ isConnected') => reconnectAttempts' = 0]_vars

\* C9: a 'failed' frame without id that arrives on the socket held, open,
\* while the primary login is outstanding there, makes the client send the
\* fallback auth frame and arm the grace timer; when a grace timer fires with
\* the socket held open, isConnected() is true, with no login result received.
C9_FallbackLogin ==
  /\ [][\A s \in Sock :
          (/\ ws = s /\ rs[s] = "open"
           /\ \E k \in Sock : authOn[k] = s /\ authP[k] = "pending"
           /\ Receive(s, Obj("failed", NoId, "", "")))
          => fallbackSent' > fallbackSent /\ graceTimers' > graceTimers
      ]_vars
  /\ [][(graceTimers' < graceTimers /\ ws # 0 /\ rs[ws] = "open") => isConnected']_vars

\* C9's case: the login of the socket held is still unanswered, the fallback
\* frame was sent, the grace timer has fired and isConnected() is true.
C9_Witness ==
  /\ isConnected
  /\ failedSeen = 1 /\ fallbackSent = 2 /\ graceTimers < fallbackSent
  /\ nsock = 1 /\ authP[1] = "pending" /\ connP[1] = "pending"
  /\ authTimeout[1] = "cleared"

\* C8: restartVM makes its vm.start call only from the settle delay, which it
\* enters only when its vm.stop call has resolved; a restart whose vm.stop
\* call was rejected or timed out makes no vm.start call.
C8_StopBeforeStart ==
  /\ [](\A c \in 1..ncalls :
          (callBy[c] = "restart" /\ callMethod[c] = "vm.start")
            => \E d \in 1..(c - 1) :
                 callBy[d] = "restart" /\ callMethod[d] = "vm.stop" /\ callP[d] = "resolved")
  /\ [](restartPc = "settle" => callP[RestartCall("vm.stop")] = "resolved")
  /\ [][(ncalls' = ncalls + 1 /\ callBy'[ncalls'] = "restart" /\ callMethod'[ncalls'] = "vm.start")
          => restartPc = "settle"]_vars

\* C8's case: the vm.stop call resolved, the settle delay elapsed and the
\* vm.start frame was sent.
C8_Witness ==
  \E c \in 1..ncalls :
    /\ callBy[c] = "restart" /\ callMethod[c] = "vm.start" /\ callSock[c] # 0
    /\ restartPc \in {"starting", "done"}

\* C11: every connect() invocation eventually settles: its promise does not
\* stay pending forever, whatever the socket does and the peer sends.
C11_ConnectSettles ==
  \A k \in Sock : (connP[k] = "pending") ~> (connP[k] # "pending")

\* C12: at most one socket created by the client is opening or open.
C12_AtMostOneLiveSocket ==
  Cardinality({s \in Sock : rs[s] \in {"connecting", "open"}}) <= 1

\* C13: every key of the pending table is the id of a call sent on the socket
\* the client holds, and that socket is open.
C13_PendingOfCurrentSession ==
  \A c \in 1..ncalls :
    callId[c] \in pendingRequests => ws # 0 /\ callSock[c] = ws /\ rs[ws] = "open"

\* C14: disconnect() rejects every pending request and leaves the pending
\* table empty.
C14_DisconnectAborts ==
  [][Disconnect =>
       /\ pendingRequests' = {}
       /\ \A c \in Calls : callP[c] = "pending" => callP'[c] = "rejected"
    ]_vars

\* A connect() invocation is in progress: its promise is pending and its socket
\* is opening or one of its timers is armed.
ConnectInProgress(k) == connP[k] = "pending" /\ (rs[k] = "connecting" \/ ~ChainDone(k))

\* C15: at no time are two connect attempts in progress.
C15_NoOverlappingConnects ==
  Cardinality({k \in Sock : ConnectInProgress(k)}) <= 1

\* C16: while a login is unanswered, a frame that does not carry its id
\* leaves its 10 s timeout armed, and the timeout rejects the login and the
\* connect() that runs it with the authentication-timeout error.
C16_AuthBounded ==
  /\ [][\A k \in Sock : \A f \in Frames :
          (authP[k] = "pending" /\ authTimeout[k] = "armed" /\ f.id # authId[k] /\ FrameStep(f))
            => authTimeout'[k] = "armed"
      ]_vars
  /\ [][\A k \in Sock :
          (AuthTimeoutFire(k) /\ authP[k] = "pending")
            => /\ authP'[k] = "rejected"
               /\ connP[k] = "pending" => connP'[k] = "rej_authtimeout"
      ]_vars

\* C18: call() sends a method frame only while the authenticated flag is true.
C18_NoCallBeforeLogin ==
  [][(ncalls' = ncalls + 1 /\ callSock'[ncalls'] # 0) => authenticated]_vars

C19_ExhaustedStaysDown ==
  [][(exhausted /\ ~(nsock' > nsock /\ reconnTimers' = reconnTimers))
       => /\ reconnTimers' = reconnTimers
          /\ nsock' = nsock
          /\ ~isConnected'
          /\ ncalls' = ncalls + 1
               => callP'[ncalls'] = "rejected" /\ callVal'[ncalls'] = "WebSocket is not connected"
    ]_vars

\* C20: a payload that does not parse, or does not parse to an object,
\* changes neither the pending table nor the authenticated flag and settles
\* no request, and every request that was pending when it arrived and has not
\* settled since still has its entry in the pending table and its deadline
\* armed, so that its response or its timeout settles it.
C20_BadInputHarmless ==
  /\ [][\A f \in {Garbage, NonObject} :
          FrameStep(f) => UNCHANGED <<pendingRequests, authenticated, callP, callVal, settles, callTimer>>
      ]_vars
  /\ [](\A c \in badSeen : callId[c] \in pendingRequests /\ callTimer[c] = "armed")

\* C24: the reconnect-attempt counter stays between 0 and
\* maxReconnectAttempts.
C24_AttemptsInRange ==
  reconnectAttempts \in 0..maxReconnectAttempts

\* C24's case: the counter has reached its maximum, a further socket has
\* closed after that and the counter was left at the maximum.
C24_Witness ==
  /\ reconnectAttempts = maxReconnectAttempts
  /\ exhausted
  /\ Cardinality({s \in Sock : rs[s] = "closed"}) > maxReconnectAttempts

\* C22: disconnect() with a socket held leaves the flag set, no socket held
\* and authenticated false; disconnect() with no socket held changes nothing
\* of the client, its sockets, its timers, its promises and its calls, so a
\* second disconnect() leaves what the first left.
C22_DisconnectIdempotent ==
  /\ [][(Disconnect /\ ws # 0)
          => intentionalDisconnect' /\ ws' = 0 /\ ~authenticated']_vars
  /\ [][(Disconnect /\ ws = 0)
          => UNCHANGED <<clientVars, sockVars, connVars, timerVars, callVars, restartPc>>]_vars

\* C22's case: disconnect() was called on a client that holds no socket and
\* never held one, and the flag is as it was.
C22_Witness ==
  /\ userClosed /\ ws = 0 /\ nsock = 0
  /\ ~intentionalDisconnect /\ ~authenticated

\* C25: a 'failed' frame makes the client send exactly one fallback auth
\* frame and start exactly one grace timer when the socket held is open (and
\* none otherwise), also while a login listener is registered on the socket.
C25_FailedOnce ==
  [][\A f \in Frames :
       (f.msg = "failed" /\ FrameStep(f))
         => IF ws # 0 /\ rs[ws] = "open"
              THEN fallbackSent' = fallbackSent + 1 /\ graceTimers' = graceTimers + 1
              ELSE fallbackSent' = fallbackSent /\ graceTimers' = graceTimers
    ]_vars

\* C23, for the grace timer of the fallback login: when it fires it changes
\* client state only if the socket that was held when it was armed is still
\* the socket held and is open.  (For the backoff timer after disconnect()
\* see C3_NoReconnectAfterDisconnect.)
C23_NoStaleTimer ==
  [][(graceTimers' < graceTimers /\ ~(ws # 0 /\ ws = Head(graceFor) /\ rs[ws] = "open"))
       => UNCHANGED clientVars]_vars

\* C21: one invocation of ensureConnected calls connect() at most maxRetries
\* times; it fails only after that many, with the rejection of the last one;
\* and at the moment it returns normally isConnected() is true.
C21_EnsureConnected ==
  /\ [](ensureTries <= maxRetries)
  /\ [](ensurePc = "failed"
          => /\ ensureTries = maxRetries
             /\ ensureConn # 0
             /\ connP[ensureConn] \notin {"none", "pending", "resolved"})
  /\ [][(ensurePc # "returned" /\ ensurePc' = "returned") => isConnected']_vars

====
